---- MODULE Spec2Model ----
(***************************************************************************)
(* Theme controller of VibeRN (ThemeProvider + useTheme) with its two      *)
(* collaborators: the AsyncStorage key-value store and the device colour   *)
(* scheme reported by useColorScheme.                                      *)
(*                                                                         *)
(* React state (mode, isLoaded) is the hook state; `view` is what the last *)
(* render of ThemeProvider produced (the context value handed to the       *)
(* children and the values the toggleTheme closure captured).              *)
(*                                                                         *)
(* Further parts of the repository are examined one at a time, each under  *)
(* its own specification over its own variables: the storage hooks         *)
(* (HookSpec), debounce and useDebouncedCallback (DebounceSpec), throttle  *)
(* (ThrottleSpec), ToastProvider (ToastSpec), ErrorBoundary (BoundarySpec) *)
(* and useTheme outside a provider (OutsideSpec).                          *)
(***************************************************************************)
EXTENDS Integers, Sequences, FiniteSets, TLC

\* ------------------------------------------------------------------ bounds
MaxCalls == 2       \* setMode calls whose setItem is in flight at one time
MaxMounts == 2      \* ThemeProvider instances in a run (app launches)

\* --------------------------------------------------------------- constants
THEME_STORAGE_KEY == "@vibern/theme-mode"

ThemeModes == {"light", "dark", "system"}

defaultMode == "system"

lightTheme == "lightTheme"
darkTheme == "darkTheme"

\* ---------------------------------------------------------- theme objects
\* Objects are named by the place that creates them; a theme holds the names
\* of its members, so that two members are the same object exactly when
\* their names are equal.

\* semantic colour name -> the palette entry it is bound to
lightColors ==
    [ background |-> "palette.white",
      backgroundSecondary |-> "palette.neutral[50]",
      backgroundTertiary |-> "palette.neutral[100]",
      surface |-> "palette.white",
      surfaceSecondary |-> "palette.neutral[50]",
      surfaceElevated |-> "palette.white",
      textPrimary |-> "palette.neutral[900]",
      textSecondary |-> "palette.neutral[600]",
      textTertiary |-> "palette.neutral[400]",
      textInverse |-> "palette.white",
      textDisabled |-> "palette.neutral[300]",
      primary |-> "palette.primary[500]",
      primaryHover |-> "palette.primary[600]",
      primaryActive |-> "palette.primary[700]",
      primaryLight |-> "palette.primary[100]",
      primaryDark |-> "palette.primary[700]",
      secondary |-> "palette.secondary[500]",
      secondaryHover |-> "palette.secondary[600]",
      secondaryActive |-> "palette.secondary[700]",
      secondaryLight |-> "palette.secondary[100]",
      border |-> "palette.neutral[200]",
      borderSecondary |-> "palette.neutral[100]",
      borderFocus |-> "palette.primary[500]",
      success |-> "palette.success[500]",
      successLight |-> "palette.success[100]",
      successDark |-> "palette.success[700]",
      warning |-> "palette.warning[500]",
      warningLight |-> "palette.warning[100]",
      warningDark |-> "palette.warning[700]",
      error |-> "palette.error[500]",
      errorLight |-> "palette.error[100]",
      errorDark |-> "palette.error[700]",
      info |-> "palette.info[500]",
      infoLight |-> "palette.info[100]",
      infoDark |-> "palette.info[700]",
      overlay |-> "'rgba(0, 0, 0, 0.5)'",
      scrim |-> "'rgba(0, 0, 0, 0.3)'",
      skeleton |-> "palette.neutral[200]",
      inputBackground |-> "palette.white",
      inputBorder |-> "palette.neutral[300]",
      inputBorderFocus |-> "palette.primary[500]",
      inputPlaceholder |-> "palette.neutral[400]" ]

\* variant: a colour added to the light table only
darkColors_MissingKey ==
    [ background |-> "palette.neutral[950]",
      backgroundSecondary |-> "palette.neutral[900]",
      backgroundTertiary |-> "palette.neutral[800]",
      surface |-> "palette.neutral[900]",
      surfaceSecondary |-> "palette.neutral[800]",
      surfaceElevated |-> "palette.neutral[800]",
      textPrimary |-> "palette.neutral[50]",
      textSecondary |-> "palette.neutral[400]",
      textTertiary |-> "palette.neutral[500]",
      textInverse |-> "palette.neutral[900]",
      textDisabled |-> "palette.neutral[600]",
      primary |-> "palette.primary[400]",
      primaryHover |-> "palette.primary[300]",
      primaryActive |-> "palette.primary[500]",
      primaryLight |-> "palette.primary[900]",
      primaryDark |-> "palette.primary[300]",
      secondary |-> "palette.secondary[400]",
      secondaryHover |-> "palette.secondary[300]",
      secondaryActive |-> "palette.secondary[500]",
      secondaryLight |-> "palette.secondary[900]",
      border |-> "palette.neutral[700]",
      borderSecondary |-> "palette.neutral[800]",
      borderFocus |-> "palette.primary[400]",
      success |-> "palette.success[400]",
      successLight |-> "palette.success[900]",
      successDark |-> "palette.success[300]",
      warning |-> "palette.warning[400]",
      warningLight |-> "palette.warning[900]",
      warningDark |-> "palette.warning[300]",
      error |-> "palette.error[400]",
      errorLight |-> "palette.error[900]",
      errorDark |-> "palette.error[300]",
      info |-> "palette.info[400]",
      infoLight |-> "palette.info[900]",
      infoDark |-> "palette.info[300]",
      overlay |-> "'rgba(0, 0, 0, 0.7)'",
      scrim |-> "'rgba(0, 0, 0, 0.5)'",
      skeleton |-> "palette.neutral[700]",
      inputBackground |-> "palette.neutral[800]",
      inputBorder |-> "palette.neutral[600]",
      inputBorderFocus |-> "palette.primary[400]" ]

darkColors ==
    [ background |-> "palette.neutral[950]",
      backgroundSecondary |-> "palette.neutral[900]",
      backgroundTertiary |-> "palette.neutral[800]",
      surface |-> "palette.neutral[900]",
      surfaceSecondary |-> "palette.neutral[800]",
      surfaceElevated |-> "palette.neutral[800]",
      textPrimary |-> "palette.neutral[50]",
      textSecondary |-> "palette.neutral[400]",
      textTertiary |-> "palette.neutral[500]",
      textInverse |-> "palette.neutral[900]",
      textDisabled |-> "palette.neutral[600]",
      primary |-> "palette.primary[400]",
      primaryHover |-> "palette.primary[300]",
      primaryActive |-> "palette.primary[500]",
      primaryLight |-> "palette.primary[900]",
      primaryDark |-> "palette.primary[300]",
      secondary |-> "palette.secondary[400]",
      secondaryHover |-> "palette.secondary[300]",
      secondaryActive |-> "palette.secondary[500]",
      secondaryLight |-> "palette.secondary[900]",
      border |-> "palette.neutral[700]",
      borderSecondary |-> "palette.neutral[800]",
      borderFocus |-> "palette.primary[400]",
      success |-> "palette.success[400]",
      successLight |-> "palette.success[900]",
      successDark |-> "palette.success[300]",
      warning |-> "palette.warning[400]",
      warningLight |-> "palette.warning[900]",
      warningDark |-> "palette.warning[300]",
      error |-> "palette.error[400]",
      errorLight |-> "palette.error[900]",
      errorDark |-> "palette.error[300]",
      info |-> "palette.info[400]",
      infoLight |-> "palette.info[900]",
      infoDark |-> "palette.info[300]",
      overlay |-> "'rgba(0, 0, 0, 0.7)'",
      scrim |-> "'rgba(0, 0, 0, 0.5)'",
      skeleton |-> "palette.neutral[700]",
      inputBackground |-> "palette.neutral[800]",
      inputBorder |-> "palette.neutral[600]",
      inputBorderFocus |-> "palette.primary[400]",
      inputPlaceholder |-> "palette.neutral[500]" ]

\* variant: the dark theme is built from copies ({ ...spacing }, ...)
Object_Copies(ref) ==
    CASE ref = "lightTheme" ->
            [ colors |-> "lightColors",
              spacing |-> "spacing",
              semanticSpacing |-> "semanticSpacing",
              radius |-> "radius",
              componentRadius |-> "componentRadius",
              shadows |-> "shadows",
              typography |-> "lightTheme.typography" ]
      [] ref = "darkTheme" ->
            [ colors |-> "darkColors",
              spacing |-> "darkTheme.spacing",
              semanticSpacing |-> "darkTheme.semanticSpacing",
              radius |-> "darkTheme.radius",
              componentRadius |-> "darkTheme.componentRadius",
              shadows |-> "darkTheme.shadows",
              typography |-> "darkTheme.typography" ]
      [] ref \in {"lightTheme.typography", "darkTheme.typography"} ->
            [ styles |-> "textStyles",
              fonts |-> "fontFamilies",
              sizes |-> "fontSizes",
              weights |-> "fontWeights" ]
      [] ref = "lightColors" -> lightColors
      [] ref = "darkColors" -> darkColors

\* the object a name stands for: the two themes, the typography literal of
\* each, the two colour tables
Object(ref) ==
    CASE ref = "lightTheme" ->
            [ colors |-> "lightColors",
              spacing |-> "spacing",
              semanticSpacing |-> "semanticSpacing",
              radius |-> "radius",
              componentRadius |-> "componentRadius",
              shadows |-> "shadows",
              typography |-> "lightTheme.typography" ]
      [] ref = "darkTheme" ->
            [ colors |-> "darkColors",
              spacing |-> "spacing",
              semanticSpacing |-> "semanticSpacing",
              radius |-> "radius",
              componentRadius |-> "componentRadius",
              shadows |-> "shadows",
              typography |-> "darkTheme.typography" ]
      [] ref \in {"lightTheme.typography", "darkTheme.typography"} ->
            [ styles |-> "textStyles",
              fonts |-> "fontFamilies",
              sizes |-> "fontSizes",
              weights |-> "fontWeights" ]
      [] ref = "lightColors" -> lightColors
      [] ref = "darkColors" -> darkColors

\* what AsyncStorage.getItem can resolve to: null (no entry) or a string
NoValue == "<null>"
StoreValues == ThemeModes \cup {NoValue, "", "Dark"}

\* what useColorScheme can return
ColorSchemes == {"light", "dark", "<null>"}

VARIABLES
    store,              \* AsyncStorage: key -> value
    systemColorScheme,  \* value useColorScheme returns
    mode,               \* useState<ThemeMode>
    isLoaded,           \* useState(false)
    load,               \* getItem and loadThemePreference() of this instance
    view,               \* output of the last render
    op,                 \* the operation a child invoked last
    calls,              \* setMode calls awaiting their setItem, in issue order
    settled,            \* the setMode call that returned last
    lastSaved,          \* mode of the setMode call whose setItem succeeded last
    history,            \* how the setItem calls settled so far
    instance,           \* number of the mounted ThemeProvider instance
    hKind,              \* the storage hook a component uses
    hDefault,           \* defaultValue passed to useAsyncStorage
    hEntry,             \* AsyncStorage entry under the key of the hook
    hValue,             \* useState: value
    hLoading,           \* useState: isLoading
    hError,             \* useState: error (useStorageState)
    hMounted,           \* the component using the hook is mounted
    hOps,               \* storage calls of the hook in flight, in issue order
    hLast,              \* the storage call of the hook that returned last
    now,                \* the clock (Date.now, the timer queue), in units of time
    dKind,              \* debounce or useDebouncedCallback
    dTimer,             \* timeoutId / timeoutRef.current: the timer that is set
    dMounted,           \* the component using useDebouncedCallback is mounted
    dLastCall,          \* the last call of the debounced function
    dInvoked,           \* the last invocation of fn / callback
    tUsed,              \* a throttled function exists
    lastCall,           \* throttle: let lastCall
    tCall,              \* the last call of the throttled function
    tInvoked,           \* the last invocation of fn by the throttled function
    toastUsed,          \* a ToastProvider is mounted
    toasts,             \* useState<Toast[]>
    toastTimers,        \* auto-hide timers that are set
    toastEvent,         \* the last show, hide or auto-hide
    boundaryUsed,       \* an ErrorBoundary is mounted
    fallback,           \* ErrorBoundary props.fallback
    onError,            \* ErrorBoundary props.onError is passed
    hasError,           \* ErrorBoundary state.hasError
    error,              \* ErrorBoundary state.error
    shown,              \* what the last render of the ErrorBoundary returned
    caught,             \* child errors caught so far
    reported,           \* calls of props.onError so far
    boundaryOp,         \* the last thing that happened to the ErrorBoundary
    outside             \* last call of a component outside any ThemeProvider

themeVars == <<store, systemColorScheme, mode, isLoaded, load, view, op, calls,
               settled, lastSaved, history, instance>>

hookVars == <<hKind, hDefault, hEntry, hValue, hLoading, hError, hMounted,
              hOps, hLast>>

clockVars == <<now>>

debounceVars == <<dKind, dTimer, dMounted, dLastCall, dInvoked>>

throttleVars == <<tUsed, lastCall, tCall, tInvoked>>

toastVars == <<toastUsed, toasts, toastTimers, toastEvent>>

boundaryVars == <<boundaryUsed, fallback, onError, hasError, error, shown,
                  caught, reported, boundaryOp>>

consumerVars == <<outside>>

machineVars == <<debounceVars, throttleVars, toastVars, boundaryVars,
                 consumerVars>>

\* what the actions of one machine leave alone
debounceFrame == <<themeVars, hookVars, clockVars, throttleVars, toastVars,
                   boundaryVars, consumerVars>>

throttleFrame == <<themeVars, hookVars, clockVars, debounceVars, toastVars,
                   boundaryVars, consumerVars>>

toastFrame == <<themeVars, hookVars, clockVars, debounceVars, throttleVars,
                boundaryVars, consumerVars>>

boundaryFrame == <<themeVars, hookVars, clockVars, debounceVars, throttleVars,
                   toastVars, consumerVars>>

utilVars == <<clockVars, machineVars>>

vars == <<themeVars, hookVars, utilVars>>

\* ----------------------------------------------------------------- helpers

\* the mark of the event after an event marked n
NextMark(n) == IF n = 1 THEN 2 ELSE 1

\* a context value of null
NullContext ==
    [theme |-> NoValue, mode |-> NoValue, isDark |-> FALSE,
     setMode |-> NoValue, toggleTheme |-> NoValue]

\* no timer is set
NoTimer == [set |-> FALSE, due |-> 0, args |-> NoValue]

\* no call or invocation has happened
NoEvent == [n |-> 0, at |-> 0, args |-> NoValue, mounted |-> TRUE]

\* variant: the saved string is matched without regard to case
IsValidSaved_AnyCase(saved) ==
    /\ saved # NoValue
    /\ saved # ""
    /\ saved \in {"light", "dark", "system", "Dark"}

\* variant: any non-empty saved string is adopted (the includes test is lost)
IsValidSaved_Truthy(saved) ==
    /\ saved # NoValue
    /\ saved # ""

\* ['light', 'dark', 'system'].includes(saved), with `saved &&` in front
IsValidSaved(saved) ==
    /\ saved # NoValue
    /\ saved # ""
    /\ saved \in {"light", "dark", "system"}

\* variant: the device scheme is not consulted
IsDark_IgnoresSystem(m, scheme) ==
    m = "dark"

\* mode === 'dark' || (mode === 'system' && systemColorScheme === 'dark')
IsDark(m, scheme) ==
    m = "dark" \/ (m = "system" /\ scheme = "dark")

\* isDark ? darkTheme : lightTheme
SelectTheme(dark) == IF dark THEN darkTheme ELSE lightTheme

\* variant: the `if (!isLoaded) return null` guard is lost
RenderOutput_Unguarded(m, scheme, loaded) ==
    [ children |-> TRUE,
      mode |-> m,
      scheme |-> scheme,
      isDark |-> IsDark(m, scheme),
      theme |-> SelectTheme(IsDark(m, scheme)) ]

\* the render of ThemeProvider from the current hook state
RenderOutput(m, scheme, loaded) ==
    [ children |-> loaded,
      mode |-> m,
      scheme |-> scheme,
      isDark |-> IsDark(m, scheme),
      theme |-> SelectTheme(IsDark(m, scheme)) ]

\* variant: light and dark are swapped literally, system counts as light
ToggleTarget_Literal(m, scheme) ==
    IF m = "dark" THEN "light" ELSE "dark"

\* target of toggleTheme, from the values its closure captured
ToggleTarget(m, scheme) ==
    IF m = "dark" \/ (m = "system" /\ scheme = "dark") THEN "light" ELSE "dark"

\* variant: the value goes through JSON.stringify, as storage.set does
WriteOf_Json(newMode) ==
    [key |-> THEME_STORAGE_KEY,
     value |-> CASE newMode = "light" -> "\"light\""
                 [] newMode = "dark" -> "\"dark\""
                 [] OTHER -> "\"system\""]

\* the setItem call setMode issues
WriteOf(newMode) == [key |-> THEME_STORAGE_KEY, value |-> newMode]

\* no setMode call has returned yet / no setItem has succeeded yet
None == [write |-> "none"]
NotSaved == "<none>"

\* s without its i-th element
RemoveAt(s, i) == SubSeq(s, 1, i - 1) \o SubSeq(s, i + 1, Len(s))

\* ------------------------------------------------------------------- state

\* no component uses a storage hook
HookIdle ==
    /\ hKind = "none"
    /\ hDefault = NoValue
    /\ hEntry = NoValue
    /\ hValue = NoValue
    /\ hLoading = FALSE
    /\ hError = NoValue
    /\ hMounted = FALSE
    /\ hOps = <<>>
    /\ hLast = [op |-> "none", arg |-> NoValue, io |-> "none",
                promise |-> "none"]

\* the clock at its start
ClockIdle == now = 0

\* no debounced function exists
DebounceIdle ==
    /\ dKind = "none"
    /\ dTimer = NoTimer
    /\ dMounted = FALSE
    /\ dLastCall = NoEvent
    /\ dInvoked = NoEvent

\* no throttled function exists
ThrottleIdle ==
    /\ tUsed = FALSE
    /\ lastCall = 0
    /\ tCall = NoEvent
    /\ tInvoked = NoEvent

\* no ToastProvider is mounted
ToastIdle ==
    /\ toastUsed = FALSE
    /\ toasts = <<>>
    /\ toastTimers = {}
    /\ toastEvent = [n |-> 0, op |-> "none", id |-> NoValue]

\* no ErrorBoundary is mounted
BoundaryIdle ==
    /\ boundaryUsed = FALSE
    /\ fallback = "<undefined>"
    /\ onError = FALSE
    /\ hasError = FALSE
    /\ error = NoValue
    /\ shown = "children"
    /\ caught = 0
    /\ reported = 0
    /\ boundaryOp = "none"

\* no component outside a ThemeProvider has called useTheme
ConsumerIdle ==
    outside = [call |-> "none",
               result |-> [threw |-> FALSE, context |-> NullContext]]

\* only the theme controller or a storage hook is in use
TimedIdle ==
    /\ DebounceIdle
    /\ ThrottleIdle
    /\ ToastIdle
    /\ ConsumerIdle

\* nothing but the theme controller or a storage hook is in use
UtilIdle ==
    /\ ClockIdle
    /\ TimedIdle
    /\ BoundaryIdle

Init ==
    /\ store \in [{THEME_STORAGE_KEY} -> StoreValues]
    /\ systemColorScheme \in ColorSchemes
    /\ mode = defaultMode
    /\ isLoaded = FALSE
    /\ load = [read |-> "pending", promise |-> "pending"]
    /\ view = RenderOutput(defaultMode, systemColorScheme, FALSE)
    /\ op = "none"
    /\ calls = <<>>
    /\ settled = None
    /\ lastSaved = NotSaved
    /\ history = "inorder"
    /\ instance = 1
    /\ HookIdle
    /\ UtilIdle

\* ----------------------------------------------------------------- actions

\* AsyncStorage.getItem resolves and loadThemePreference runs to its end
LoadResolve ==
    /\ load.read = "pending"
    /\ LET saved == store[THEME_STORAGE_KEY] IN
        /\ mode' = IF IsValidSaved(saved) THEN saved ELSE mode
        /\ isLoaded' = TRUE
        /\ load' = [read |-> "resolved", promise |-> "fulfilled"]
    /\ UNCHANGED <<store, systemColorScheme, view, op, calls, settled,
                   lastSaved, history, instance>>
    /\ UNCHANGED <<hookVars, utilVars>>

\* variant: setIsLoaded(true) sits in the try block, not in finally
LoadReject_NoFinally ==
    /\ load.read = "pending"
    /\ load' = [read |-> "rejected", promise |-> "fulfilled"]
    /\ UNCHANGED <<store, systemColorScheme, mode, isLoaded, view, op, calls,
                   settled, lastSaved, history, instance>>
    /\ UNCHANGED <<hookVars, utilVars>>

\* AsyncStorage.getItem rejects: catch, warn, finally
LoadReject ==
    /\ load.read = "pending"
    /\ isLoaded' = TRUE
    /\ load' = [read |-> "rejected", promise |-> "fulfilled"]
    /\ UNCHANGED <<store, systemColorScheme, mode, view, op, calls, settled,
                   lastSaved, history, instance>>
    /\ UNCHANGED <<hookVars, utilVars>>

\* React renders ThemeProvider again after a state or colour scheme change
Render ==
    /\ view # RenderOutput(mode, systemColorScheme, isLoaded)
    /\ view' = RenderOutput(mode, systemColorScheme, isLoaded)
    /\ UNCHANGED <<store, systemColorScheme, mode, isLoaded, load, op, calls,
                   settled, lastSaved, history, instance>>
    /\ UNCHANGED <<hookVars, utilVars>>

\* variant: a new setMode call supersedes the writes still in flight
IssueSetMode_Coalescing(newMode) ==
    /\ Len(calls) < MaxCalls
    /\ mode' = newMode
    /\ calls' = <<[mode |-> newMode, req |-> WriteOf(newMode),
                   promise |-> "pending"]>>
    /\ UNCHANGED <<store, systemColorScheme, isLoaded, load, view, settled,
                   lastSaved, history, instance>>
    /\ UNCHANGED <<hookVars, utilVars>>

\* variant: setMode returns early when the mode does not change
IssueSetMode_SkipsSame(newMode) ==
    /\ Len(calls) < MaxCalls
    /\ mode' = newMode
    /\ calls' = IF newMode = mode
                 THEN calls
                 ELSE Append(calls, [mode |-> newMode, req |-> WriteOf(newMode),
                                     promise |-> "pending"])
    /\ UNCHANGED <<store, systemColorScheme, isLoaded, load, view, settled,
                   lastSaved, history, instance>>
    /\ UNCHANGED <<hookVars, utilVars>>

\* variant: setModeState(newMode) is called after the await
IssueSetMode_StateAfterWrite(newMode) ==
    /\ Len(calls) < MaxCalls
    /\ calls' = Append(calls, [mode |-> newMode, req |-> WriteOf(newMode),
                               promise |-> "pending"])
    /\ UNCHANGED <<store, systemColorScheme, mode, isLoaded, load, view,
                   settled, lastSaved, history, instance>>
    /\ UNCHANGED <<hookVars, utilVars>>

\* variant: setMode brackets the write with setIsLoaded(false) ... (true)
IssueSetMode_Reloading(newMode) ==
    /\ Len(calls) < MaxCalls
    /\ mode' = newMode
    /\ isLoaded' = FALSE
    /\ calls' = Append(calls, [mode |-> newMode, req |-> WriteOf(newMode),
                               promise |-> "pending"])
    /\ UNCHANGED <<store, systemColorScheme, load, view, settled, lastSaved,
                   history, instance>>
    /\ UNCHANGED <<hookVars, utilVars>>

\* body of setMode up to its await
IssueSetMode(newMode) ==
    /\ Len(calls) < MaxCalls
    /\ mode' = newMode
    /\ calls' = Append(calls, [mode |-> newMode, req |-> WriteOf(newMode),
                               promise |-> "pending"])
    /\ UNCHANGED <<store, systemColorScheme, isLoaded, load, view, settled,
                   lastSaved, history, instance>>
    /\ UNCHANGED <<hookVars, utilVars>>

\* a child calls setMode(newMode) of the context value
SetMode(newMode) ==
    /\ view.children
    /\ op' = "setMode"
    /\ IssueSetMode(newMode)

\* variant: toggleTheme reads the latest mode and device scheme
ToggleTheme_FromState ==
    /\ view.children
    /\ op' = "toggleTheme"
    /\ IssueSetMode(ToggleTarget(mode, systemColorScheme))

\* a child calls toggleTheme of the context value
ToggleTheme ==
    /\ view.children
    /\ op' = "toggleTheme"
    /\ IssueSetMode(ToggleTarget(view.mode, view.scheme))

\* the setItem of call i resolves; setMode returns
WriteResolve(i) ==
    /\ i \in 1..Len(calls)
    /\ store' = [store EXCEPT ![calls[i].req.key] = calls[i].req.value]
    /\ calls' = RemoveAt(calls, i)
    /\ settled' = [mode |-> calls[i].mode, write |-> "ok",
                   promise |-> "fulfilled"]
    /\ lastSaved' = calls[i].mode
    /\ history' = IF i > 1 /\ history = "inorder" THEN "reordered" ELSE history
    /\ UNCHANGED <<systemColorScheme, mode, isLoaded, load, view, op,
                   instance>>
    /\ UNCHANGED <<hookVars, utilVars>>

\* variant: the catch block reverts the mode to the persisted one
WriteReject_Rollback(i) ==
    /\ i \in 1..Len(calls)
    /\ calls' = RemoveAt(calls, i)
    /\ settled' = [mode |-> calls[i].mode, write |-> "failed",
                   promise |-> "fulfilled"]
    /\ mode' = IF IsValidSaved(store[THEME_STORAGE_KEY])
                THEN store[THEME_STORAGE_KEY] ELSE defaultMode
    /\ history' = "failed"
    /\ UNCHANGED <<store, systemColorScheme, isLoaded, load, view, op,
                   lastSaved, instance>>
    /\ UNCHANGED <<hookVars, utilVars>>

\* variant: no try/catch around the await
WriteReject_Rethrow(i) ==
    /\ i \in 1..Len(calls)
    /\ calls' = RemoveAt(calls, i)
    /\ settled' = [mode |-> calls[i].mode, write |-> "failed",
                   promise |-> "rejected"]
    /\ history' = "failed"
    /\ UNCHANGED <<store, systemColorScheme, mode, isLoaded, load, view, op,
                   lastSaved, instance>>
    /\ UNCHANGED <<hookVars, utilVars>>

\* the setItem of call i rejects; setMode catches, warns and returns
WriteReject(i) ==
    /\ i \in 1..Len(calls)
    /\ calls' = RemoveAt(calls, i)
    /\ settled' = [mode |-> calls[i].mode, write |-> "failed",
                   promise |-> "fulfilled"]
    /\ history' = "failed"
    /\ UNCHANGED <<store, systemColorScheme, mode, isLoaded, load, view, op,
                   lastSaved, instance>>
    /\ UNCHANGED <<hookVars, utilVars>>

\* variant: a device change makes the controller follow the device
SchemeChange_FollowsDevice(scheme) ==
    /\ scheme # systemColorScheme
    /\ systemColorScheme' = scheme
    /\ mode' = "system"
    /\ UNCHANGED <<store, isLoaded, load, view, op, calls, settled,
                   lastSaved, history, instance>>
    /\ UNCHANGED <<hookVars, utilVars>>

\* the device switches its colour scheme
SchemeChange(scheme) ==
    /\ scheme # systemColorScheme
    /\ systemColorScheme' = scheme
    /\ UNCHANGED <<store, mode, isLoaded, load, view, op, calls, settled,
                   lastSaved, history, instance>>
    /\ UNCHANGED <<hookVars, utilVars>>

\* a fresh ThemeProvider instance is mounted over the same store (the app is
\* launched again); setItem calls still in flight stay in flight
Mount ==
    /\ instance < MaxMounts
    /\ instance' = instance + 1
    /\ mode' = defaultMode
    /\ isLoaded' = FALSE
    /\ load' = [read |-> "pending", promise |-> "pending"]
    /\ view' = RenderOutput(defaultMode, systemColorScheme, FALSE)
    /\ op' = "none"
    /\ UNCHANGED <<store, systemColorScheme, calls, settled, lastSaved,
                   history>>
    /\ UNCHANGED <<hookVars, utilVars>>

Next ==
    \/ LoadResolve
    \/ LoadReject
    \/ Render
    \/ \E m \in ThemeModes : SetMode(m)
    \/ ToggleTheme
    \/ \E i \in 1..MaxCalls : WriteResolve(i)
    \/ \E i \in 1..MaxCalls : WriteReject(i)
    \/ \E s \in ColorSchemes : SchemeChange(s)
    \/ Mount

Spec == Init /\ [][Next]_vars

\* the storage promises settle, the event loop runs their continuations and
\* React flushes scheduled renders
FairSpec ==
    /\ Spec
    /\ WF_vars(LoadResolve \/ LoadReject)
    /\ WF_vars(Render)

\* ------------------------------------------------------------ storage hooks

\* storage calls one hook instance may have in flight
MaxHookOps == 2

\* values of the type T a hook is used with; NoValue is the JS value null
HookValues == {"on", "off", NoValue}

\* defaultValue arguments of useAsyncStorage
HookDefaults == {"off", NoValue}

\* what JSON.parse throws on a text that is not JSON
SyntaxError == "<SyntaxError>"

\* JSON.stringify(value)
JsonStringify(v) ==
    CASE v = NoValue -> "null"
      [] v = "on" -> "\"on\""
      [] v = "off" -> "\"off\""

\* JSON.parse(value)
JsonParse(s) ==
    CASE s = "null" -> NoValue
      [] s = "\"on\"" -> "on"
      [] s = "\"off\"" -> "off"
      [] OTHER -> SyntaxError

\* what AsyncStorage may hold under the key: nothing, JSON texts, other text
HookEntries == {NoValue, "null", "\"on\"", "\"off\"", "{on"}

\* storage.get(key), given the outcome of getItem: every error is caught
storage_get(o) ==
    IF o.io = "failed" THEN NoValue
    ELSE IF o.value = NoValue THEN NoValue
    ELSE IF JsonParse(o.value) = SyntaxError THEN NoValue
    ELSE JsonParse(o.value)

NoCall == [op |-> "none", arg |-> NoValue, io |-> "none", promise |-> "none"]

HookCall(o, v) == [op |-> o, arg |-> v]

HookReturn(c, io, p) == [op |-> c.op, arg |-> c.arg, io |-> io, promise |-> p]

\* the theme controller at rest while a storage hook is examined
ThemeIdle ==
    /\ store = [k \in {THEME_STORAGE_KEY} |-> NoValue]
    /\ systemColorScheme = "light"
    /\ mode = defaultMode
    /\ isLoaded = FALSE
    /\ load = [read |-> "pending", promise |-> "pending"]
    /\ view = RenderOutput(defaultMode, "light", FALSE)
    /\ op = "none"
    /\ calls = <<>>
    /\ settled = None
    /\ lastSaved = NotSaved
    /\ history = "inorder"
    /\ instance = 1

\* a component mounts with one of the hooks; the mount effect has called
\* storage.get
HookInit ==
    /\ ThemeIdle
    /\ UtilIdle
    /\ hKind \in {"useAsyncStorage", "useStorageState"}
    /\ hDefault \in IF hKind = "useAsyncStorage" THEN HookDefaults ELSE {NoValue}
    /\ hEntry \in HookEntries
    /\ hValue = hDefault
    /\ hLoading = TRUE
    /\ hError = NoValue
    /\ hMounted = TRUE
    /\ hOps = <<HookCall("get", NoValue)>>
    /\ hLast = NoCall

\* variant: the loaded value is taken as read, null included
LoadedValue_NoDefault(storedValue) == storedValue

\* the value the mount effect of a hook puts into its state
LoadedValue(storedValue) ==
    IF hKind = "useAsyncStorage"
    THEN IF storedValue # NoValue THEN storedValue ELSE hDefault
    ELSE storedValue

\* the value a hook holds after a successful removeValue
RemovedValue == IF hKind = "useAsyncStorage" THEN hDefault ELSE NoValue

\* storage.get returns to loadValue; a state update of an unmounted component
\* has no effect
LoadValueReturn(i, o) ==
    /\ hOps[i].op = "get"
    /\ hValue' = IF hMounted THEN LoadedValue(storage_get(o)) ELSE hValue
    /\ hLoading' = IF hMounted THEN FALSE ELSE hLoading
    /\ hOps' = RemoveAt(hOps, i)
    /\ hLast' = HookReturn(hOps[i], o.io, "fulfilled")
    /\ UNCHANGED <<hKind, hDefault, hEntry, hError, hMounted>>
    /\ UNCHANGED <<themeVars, utilVars>>

\* AsyncStorage.getItem resolves with the entry under the key
GetResolve(i) ==
    /\ i \in 1..Len(hOps)
    /\ LoadValueReturn(i, [io |-> "ok", value |-> hEntry])

\* AsyncStorage.getItem rejects
GetReject(i) ==
    /\ i \in 1..Len(hOps)
    /\ LoadValueReturn(i, [io |-> "failed", value |-> NoValue])

\* variant: setValue puts the new value into the state before the write
SetValue_Optimistic(newValue) ==
    /\ hMounted
    /\ Len(hOps) < MaxHookOps
    /\ hValue' = newValue
    /\ hError' = IF hKind = "useStorageState" THEN NoValue ELSE hError
    /\ hOps' = Append(hOps, HookCall("set", newValue))
    /\ UNCHANGED <<hKind, hDefault, hEntry, hLoading, hMounted, hLast>>
    /\ UNCHANGED <<themeVars, utilVars>>

\* the component calls setValue(newValue): up to the await of storage.set
SetValue(newValue) ==
    /\ hMounted
    /\ Len(hOps) < MaxHookOps
    /\ hError' = IF hKind = "useStorageState" THEN NoValue ELSE hError
    /\ hOps' = Append(hOps, HookCall("set", newValue))
    /\ UNCHANGED <<hKind, hDefault, hEntry, hValue, hLoading, hMounted, hLast>>
    /\ UNCHANGED <<themeVars, utilVars>>

\* the component calls removeValue(): up to the await of storage.remove
RemoveValue ==
    /\ hMounted
    /\ Len(hOps) < MaxHookOps
    /\ hError' = IF hKind = "useStorageState" THEN NoValue ELSE hError
    /\ hOps' = Append(hOps, HookCall("remove", NoValue))
    /\ UNCHANGED <<hKind, hDefault, hEntry, hValue, hLoading, hMounted, hLast>>
    /\ UNCHANGED <<themeVars, utilVars>>

\* the component calls refresh() of useStorageState: loadValue up to its await
Refresh ==
    /\ hMounted
    /\ hKind = "useStorageState"
    /\ Len(hOps) < MaxHookOps
    /\ hLoading' = TRUE
    /\ hError' = NoValue
    /\ hOps' = Append(hOps, HookCall("get", NoValue))
    /\ UNCHANGED <<hKind, hDefault, hEntry, hValue, hMounted, hLast>>
    /\ UNCHANGED <<themeVars, utilVars>>

\* AsyncStorage.setItem resolves: storage.set returns and setValue goes on
SetResolve(i) ==
    /\ i \in 1..Len(hOps)
    /\ hOps[i].op = "set"
    /\ hEntry' = JsonStringify(hOps[i].arg)
    /\ hValue' = IF hMounted THEN hOps[i].arg ELSE hValue
    /\ hOps' = RemoveAt(hOps, i)
    /\ hLast' = HookReturn(hOps[i], "ok", "fulfilled")
    /\ UNCHANGED <<hKind, hDefault, hLoading, hError, hMounted>>
    /\ UNCHANGED <<themeVars, utilVars>>

\* AsyncStorage.removeItem resolves: storage.remove returns
RemoveResolve(i) ==
    /\ i \in 1..Len(hOps)
    /\ hOps[i].op = "remove"
    /\ hEntry' = NoValue
    /\ hValue' = IF hMounted THEN RemovedValue ELSE hValue
    /\ hOps' = RemoveAt(hOps, i)
    /\ hLast' = HookReturn(hOps[i], "ok", "fulfilled")
    /\ UNCHANGED <<hKind, hDefault, hLoading, hError, hMounted>>
    /\ UNCHANGED <<themeVars, utilVars>>

\* AsyncStorage.setItem or removeItem rejects: storage.set / storage.remove
\* rethrows, the hook records the error (useStorageState) and rethrows
WriteThrows(i) ==
    /\ i \in 1..Len(hOps)
    /\ hOps[i].op \in {"set", "remove"}
    /\ hError' = IF hKind = "useStorageState" /\ hMounted THEN "Error" ELSE hError
    /\ hOps' = RemoveAt(hOps, i)
    /\ hLast' = HookReturn(hOps[i], "failed", "rejected")
    /\ UNCHANGED <<hKind, hDefault, hEntry, hValue, hLoading, hMounted>>
    /\ UNCHANGED <<themeVars, utilVars>>

\* the component using the hook unmounts
Unmount ==
    /\ hMounted
    /\ hMounted' = FALSE
    /\ UNCHANGED <<hKind, hDefault, hEntry, hValue, hLoading, hError, hOps, hLast>>
    /\ UNCHANGED <<themeVars, utilVars>>

HookNext ==
    \/ \E i \in 1..MaxHookOps : GetResolve(i)
    \/ \E i \in 1..MaxHookOps : GetReject(i)
    \/ \E v \in HookValues : SetValue(v)
    \/ RemoveValue
    \/ Refresh
    \/ \E i \in 1..MaxHookOps : SetResolve(i)
    \/ \E i \in 1..MaxHookOps : RemoveResolve(i)
    \/ \E i \in 1..MaxHookOps : WriteThrows(i)
    \/ Unmount

HookSpec == HookInit /\ [][HookNext]_vars

\* ------------------------------------------------------- debounce, throttle

\* units of time a run lasts
MaxTime == 5

\* the delay argument of debounce / useDebouncedCallback
Delay == 2

\* arguments the debounced function is called with
CallArgs == {"a", "b"}

\* time passes
Tick ==
    /\ now < MaxTime
    /\ now' = now + 1
    /\ UNCHANGED <<themeVars, hookVars, machineVars>>

\* a debounced function is made: debounce(fn, Delay), or a component mounts
\* with useDebouncedCallback(callback, Delay)
DebounceInit ==
    /\ ThemeIdle
    /\ HookIdle
    /\ ClockIdle
    /\ ThrottleIdle
    /\ ToastIdle
    /\ BoundaryIdle
    /\ ConsumerIdle
    /\ dKind \in {"debounce", "useDebouncedCallback"}
    /\ dTimer = NoTimer
    /\ dMounted = TRUE
    /\ dLastCall = NoEvent
    /\ dInvoked = NoEvent

\* variant: a call while a timer is set keeps that timer's due time
DebouncedCall_KeepsDue(args) ==
    /\ now + Delay <= MaxTime
    /\ dTimer' = [set |-> TRUE,
                  due |-> IF dTimer.set THEN dTimer.due ELSE now + Delay,
                  args |-> args]
    /\ dLastCall' = [n |-> 1, at |-> now, args |-> args, mounted |-> dMounted]
    /\ dInvoked' = [dInvoked EXCEPT !.n = 0]
    /\ UNCHANGED <<dKind, dMounted>>
    /\ UNCHANGED debounceFrame

\* the debounced function is called: clearTimeout, then setTimeout(.., delay)
DebouncedCall(args) ==
    /\ now + Delay <= MaxTime
    /\ dTimer' = [set |-> TRUE, due |-> now + Delay, args |-> args]
    /\ dLastCall' = [n |-> 1, at |-> now, args |-> args, mounted |-> dMounted]
    /\ dInvoked' = [dInvoked EXCEPT !.n = 0]
    /\ UNCHANGED <<dKind, dMounted>>
    /\ UNCHANGED debounceFrame

\* the timer that is set runs, no earlier than its due time: fn(...args)
DebounceTimerFires ==
    /\ dTimer.set
    /\ now >= dTimer.due
    /\ dInvoked' = [n |-> IF dInvoked.n < 2 THEN dInvoked.n + 1 ELSE 2,
                    at |-> now, args |-> dTimer.args, mounted |-> dMounted]
    /\ dTimer' = NoTimer
    /\ UNCHANGED <<dKind, dMounted, dLastCall>>
    /\ UNCHANGED debounceFrame

\* the component using useDebouncedCallback unmounts: the effect cleanup
\* clears the timer that is set
DebounceUnmount ==
    /\ dKind = "useDebouncedCallback"
    /\ dMounted
    /\ dMounted' = FALSE
    /\ dTimer' = NoTimer
    /\ UNCHANGED <<dKind, dLastCall, dInvoked>>
    /\ UNCHANGED debounceFrame

DebounceNext ==
    \/ Tick
    \/ \E args \in CallArgs : DebouncedCall(args)
    \/ DebounceTimerFires
    \/ DebounceUnmount

DebounceSpec == DebounceInit /\ [][DebounceNext]_vars

\* timers that are due run, and time passes
DebounceFairSpec ==
    /\ DebounceSpec
    /\ WF_vars(Tick)
    /\ WF_vars(DebounceTimerFires)

\* the limit argument of throttle
Limit == 2

\* Date.now() when a run starts, in units of time since the epoch
Epoch == 10

\* Date.now()
DateNow == Epoch + now

\* throttle(fn, Limit) has returned the throttled function
ThrottleInit ==
    /\ ThemeIdle
    /\ HookIdle
    /\ ClockIdle
    /\ DebounceIdle
    /\ ToastIdle
    /\ BoundaryIdle
    /\ ConsumerIdle
    /\ lastCall = 0
    /\ tCall = NoEvent
    /\ tInvoked = NoEvent
    /\ tUsed = TRUE

\* variant: an invocation does not record its time
ThrottledCall_NoStamp(args) ==
    /\ tUsed
    /\ tCall' = [n |-> NextMark(tCall.n), at |-> DateNow, args |-> args,
                 mounted |-> TRUE]
    /\ IF DateNow - lastCall >= Limit
       THEN tInvoked' = [n |-> NextMark(tInvoked.n), at |-> DateNow,
                         args |-> args, mounted |-> TRUE]
       ELSE tInvoked' = tInvoked
    /\ UNCHANGED <<lastCall, tUsed>>
    /\ UNCHANGED throttleFrame

\* the throttled function is called
ThrottledCall(args) ==
    /\ tUsed
    /\ tCall' = [n |-> NextMark(tCall.n), at |-> DateNow, args |-> args,
                 mounted |-> TRUE]
    /\ IF DateNow - lastCall >= Limit
       THEN /\ lastCall' = DateNow
            /\ tInvoked' = [n |-> NextMark(tInvoked.n), at |-> DateNow,
                            args |-> args, mounted |-> TRUE]
       ELSE UNCHANGED <<lastCall, tInvoked>>
    /\ UNCHANGED tUsed
    /\ UNCHANGED throttleFrame

ThrottleNext ==
    \/ Tick
    \/ \E args \in CallArgs : ThrottledCall(args)

ThrottleSpec == ThrottleInit /\ [][ThrottleNext]_vars

\* --------------------------------------------------------------------- toast

\* toasts on the list, and auto-hide timers set, at one time
MaxToasts == 2

\* the default duration of a toast (3000 ms), in units of time
DefaultDuration == 3

\* values of options.duration: not given, or a number of units of time
GivenDurations ==
    {[given |-> FALSE, duration |-> 0]} \cup [given : {TRUE}, duration : {0, 1}]

\* values Math.random().toString(36).substring(7) takes
ToastIds == {"x", "y"}

\* options.duration || 3000
ToastDuration(option) ==
    IF ~option.given \/ option.duration = 0
    THEN DefaultDuration
    ELSE option.duration

\* variant: the toast shown first is taken off the list
FilterOut_First(prev, id) ==
    IF prev = <<>> THEN prev ELSE Tail(prev)

\* prev.filter((t) => t.id !== id)
FilterOut(prev, id) ==
    LET Keep(t) == t.id # id IN SelectSeq(prev, Keep)

\* a ToastProvider is mounted with an empty list
ToastInit ==
    /\ ThemeIdle
    /\ HookIdle
    /\ ClockIdle
    /\ DebounceIdle
    /\ ThrottleIdle
    /\ BoundaryIdle
    /\ ConsumerIdle
    /\ toastUsed = TRUE
    /\ toasts = <<>>
    /\ toastTimers = {}
    /\ toastEvent = [n |-> 0, op |-> "none", id |-> NoValue]

\* a component calls show(options); id is what Math.random yields
Show(id, option) ==
    /\ toastUsed
    /\ Len(toasts) < MaxToasts
    /\ Cardinality(toastTimers) < MaxToasts
    /\ now + ToastDuration(option) <= MaxTime
    /\ LET toast == [id |-> id, option |-> option,
                     duration |-> ToastDuration(option), at |-> now]
       IN  /\ toasts' = Append(toasts, toast)
           /\ toastTimers' = toastTimers \cup
                                {[id |-> id, due |-> now + toast.duration]}
    /\ toastEvent' = [n |-> NextMark(toastEvent.n), op |-> "show", id |-> id]
    /\ UNCHANGED toastUsed
    /\ UNCHANGED toastFrame

\* hide(id) is called (a press on a toast, or a component through useToast)
Hide(id) ==
    /\ toastUsed
    /\ toasts' = FilterOut(toasts, id)
    /\ toastEvent' = [n |-> NextMark(toastEvent.n), op |-> "hide", id |-> id]
    /\ UNCHANGED <<toastUsed, toastTimers>>
    /\ UNCHANGED toastFrame

\* an auto-hide timer runs, no earlier than its due time
AutoHide(timer) ==
    /\ timer \in toastTimers
    /\ now >= timer.due
    /\ toasts' = FilterOut(toasts, timer.id)
    /\ toastTimers' = toastTimers \ {timer}
    /\ toastEvent' = [n |-> NextMark(toastEvent.n), op |-> "timer",
                     id |-> timer.id]
    /\ UNCHANGED toastUsed
    /\ UNCHANGED toastFrame

ToastNext ==
    \/ Tick
    \/ \E id \in ToastIds, option \in GivenDurations : Show(id, option)
    \/ \E id \in ToastIds : Hide(id)
    \/ \E timer \in toastTimers : AutoHide(timer)

ToastSpec == ToastInit /\ [][ToastNext]_vars

\* timers that are due run, and time passes
ToastFairSpec ==
    /\ ToastSpec
    /\ WF_vars(Tick)
    /\ \A id \in ToastIds, due \in 0..(MaxTime + 1) :
            WF_vars(AutoHide([id |-> id, due |-> due]))

\* ------------------------------------------------------------ error boundary

\* child errors an ErrorBoundary catches in a run
MaxErrors == 3

\* a prop that is not passed
Undefined == "<undefined>"

\* values of the fallback prop: not passed, null, an element
Fallbacks == {Undefined, NoValue, "<CustomErrorScreen />"}

\* errors a child throws while it renders
ChildErrors == {"TypeError", "RangeError"}

\* ErrorBoundary.render()
BoundaryRender(failed, fallbackProp) ==
    IF failed
    THEN IF fallbackProp \notin {Undefined, NoValue}
         THEN fallbackProp
         ELSE "<DefaultScreen />"
    ELSE "children"

\* an ErrorBoundary is constructed and has rendered its children
BoundaryInit ==
    /\ ThemeIdle
    /\ HookIdle
    /\ ClockIdle
    /\ TimedIdle
    /\ boundaryUsed = TRUE
    /\ fallback \in Fallbacks
    /\ onError \in BOOLEAN
    /\ hasError = FALSE
    /\ error = NoValue
    /\ shown = "children"
    /\ caught = 0
    /\ reported = 0
    /\ boundaryOp = "none"

\* a child throws while the children are rendered: getDerivedStateFromError,
\* the render that follows, componentDidCatch
ChildThrows(e) ==
    /\ boundaryUsed
    /\ shown = "children"
    /\ caught < MaxErrors
    /\ hasError' = TRUE
    /\ error' = e
    /\ shown' = BoundaryRender(TRUE, fallback)
    /\ caught' = caught + 1
    /\ reported' = IF onError THEN reported + 1 ELSE reported
    /\ boundaryOp' = "throw"
    /\ UNCHANGED <<boundaryUsed, fallback, onError>>
    /\ UNCHANGED boundaryFrame

\* variant: the retry clears hasError and keeps the error
HandleRetry_KeepsError ==
    /\ boundaryUsed
    /\ hasError' = FALSE
    /\ shown' = BoundaryRender(FALSE, fallback)
    /\ boundaryOp' = "retry"
    /\ UNCHANGED <<boundaryUsed, fallback, onError, error, caught, reported>>
    /\ UNCHANGED boundaryFrame

\* handleRetry is invoked (the Try Again button, or through a ref), and the
\* render that follows
HandleRetry ==
    /\ boundaryUsed
    /\ hasError' = FALSE
    /\ error' = NoValue
    /\ shown' = BoundaryRender(FALSE, fallback)
    /\ boundaryOp' = "retry"
    /\ UNCHANGED <<boundaryUsed, fallback, onError, caught, reported>>
    /\ UNCHANGED boundaryFrame

\* the parent renders the ErrorBoundary again, with a fallback prop
ParentRenders(fallbackProp) ==
    /\ boundaryUsed
    /\ fallback' = fallbackProp
    /\ shown' = BoundaryRender(hasError, fallbackProp)
    /\ boundaryOp' = "render"
    /\ UNCHANGED <<boundaryUsed, onError, hasError, error, caught, reported>>
    /\ UNCHANGED boundaryFrame

BoundaryNext ==
    \/ \E e \in ChildErrors : ChildThrows(e)
    \/ HandleRetry
    \/ \E fallbackProp \in Fallbacks : ParentRenders(fallbackProp)

BoundarySpec == BoundaryInit /\ [][BoundaryNext]_vars

\* -------------------------------------------- useTheme outside a provider

\* the default value of ThemeContext; its setMode and toggleTheme are the
\* functions () => {}
DefaultContext ==
    [theme |-> lightTheme, mode |-> "system", isDark |-> FALSE,
     setMode |-> "() => {}", toggleTheme |-> "() => {}"]

\* useContext(ThemeContext) in a component with no ThemeProvider above it
UseContextOutside == DefaultContext

\* useTheme(): what it returns, or that it throws
useTheme(context) ==
    IF context = NullContext
    THEN [threw |-> TRUE, context |-> NullContext]
    ELSE [threw |-> FALSE, context |-> context]

\* a component outside any ThemeProvider renders and calls useTheme()
OutsideUseTheme ==
    /\ outside' = [call |-> "useTheme",
                   result |-> useTheme(UseContextOutside)]
    /\ UNCHANGED <<themeVars, hookVars, clockVars, debounceVars, throttleVars,
                   toastVars, boundaryVars>>

\* variant: the default setMode is the setMode of a provider
OutsideSetMode_Writes(newMode) ==
    /\ outside.call # "none"
    /\ ~outside.result.threw
    /\ Len(calls) < MaxCalls
    /\ outside' = [outside EXCEPT !.call = "setMode"]
    /\ mode' = newMode
    /\ calls' = Append(calls, [mode |-> newMode, req |-> WriteOf(newMode),
                               promise |-> "pending"])
    /\ UNCHANGED <<store, systemColorScheme, isLoaded, load, view, op, settled,
                   lastSaved, history, instance>>
    /\ UNCHANGED <<hookVars, clockVars, debounceVars, throttleVars,
                   toastVars, boundaryVars>>

\* the component calls the setMode it got from useTheme(): () => {}
OutsideSetMode(newMode) ==
    /\ outside.call # "none"
    /\ ~outside.result.threw
    /\ outside' = [outside EXCEPT !.call = "setMode"]
    /\ UNCHANGED <<themeVars, hookVars, clockVars, debounceVars, throttleVars,
                   toastVars, boundaryVars>>

\* the component calls the toggleTheme it got from useTheme(): () => {}
OutsideToggleTheme ==
    /\ outside.call # "none"
    /\ ~outside.result.threw
    /\ outside' = [outside EXCEPT !.call = "toggleTheme"]
    /\ UNCHANGED <<themeVars, hookVars, clockVars, debounceVars, throttleVars,
                   toastVars, boundaryVars>>

\* the theme controller, and a component outside any ThemeProvider
OutsideNext ==
    \/ LoadResolve
    \/ LoadReject
    \/ Render
    \/ \E m \in ThemeModes : SetMode(m)
    \/ ToggleTheme
    \/ \E i \in 1..MaxCalls : WriteResolve(i)
    \/ \E i \in 1..MaxCalls : WriteReject(i)
    \/ \E s \in ColorSchemes : SchemeChange(s)
    \/ OutsideUseTheme
    \/ \E m \in ThemeModes : OutsideSetMode(m)
    \/ OutsideToggleTheme

OutsideSpec == Init /\ [][OutsideNext]_vars

\* ------------------------------------------------------------------ claims

KEY == THEME_STORAGE_KEY

\* a step in which a child's setMode or toggleTheme call is made
CallIssued == Len(calls') > Len(calls)

\* a step in which the initial getItem of the instance resolves / rejects
ReadResolves == load.read = "pending" /\ load'.read = "resolved"
ReadRejects == load.read = "pending" /\ load'.read = "rejected"

\* a step in which the setItem of a setMode call rejects
WriteFails == Len(calls') < Len(calls) /\ settled'.write = "failed"

\* C1: a setMode(m) call leaves the in-memory mode at m in the very step that
\* issues its setItem, whatever the mode was before (m itself included); the
\* write is then still in flight and the store untouched.
C1_SetModeImmediate ==
    [][CallIssued =>
        /\ mode' = calls'[Len(calls')].mode
        /\ calls'[Len(calls')].req = [key |-> KEY, value |-> mode']
        /\ calls'[Len(calls')].promise = "pending"
        /\ store' = store]_vars

\* setMode('dark') twice in a row, neither write completed
C1_Witness ==
    /\ Len(calls) = 2
    /\ calls[1].mode = "dark"
    /\ calls[2].mode = "dark"
    /\ op = "setMode"
    /\ mode = "dark"
    /\ store[KEY] # "dark"

\* C2: toggleTheme sets the mode to the opposite of the appearance the
\* provider exposes: light -> dark, dark -> light, system on a light device ->
\* dark, system on a dark device -> light; the result is never system.
C2_ToggleTable ==
    [][(CallIssued /\ op' = "toggleTheme") =>
        /\ view.mode = "light" => mode' = "dark"
        /\ view.mode = "dark" => mode' = "light"
        /\ (view.mode = "system" /\ view.scheme = "light") => mode' = "dark"
        /\ (view.mode = "system" /\ view.scheme = "dark") => mode' = "light"
        /\ mode' \in {"light", "dark"}
        /\ (mode' = "dark") = ~view.isDark]_vars

\* toggled from system on a dark device
C2_Witness ==
    /\ op = "toggleTheme"
    /\ view.children
    /\ view.mode = "system"
    /\ view.scheme = "dark"
    /\ calls # <<>>
    /\ calls[Len(calls)].mode = "light"
    /\ mode = "light"

\* C3: when the initial read finds no entry or anything but the exact strings
\* light, dark, system under the theme key, the value is not adopted and the
\* instance becomes Ready with mode system.
C3_InvalidSavedRejected ==
    [][(ReadResolves /\ store[KEY] \notin {"light", "dark", "system"}) =>
        (mode' = "system" /\ isLoaded')]_vars

\* Ready over a store that holds an unrecognized string
C3_Witness ==
    /\ isLoaded
    /\ load.read = "resolved"
    /\ op = "none"
    /\ lastSaved = NotSaved
    /\ calls = <<>>
    /\ store[KEY] = "Dark"
    /\ mode = "system"

\* C4: whatever the initial read does, the instance gets Ready once it
\* settles; a read that throws leaves it Ready with mode system and the
\* promise of loadThemePreference fulfilled (nothing is rethrown).
C4_ReadyAfterRead ==
    /\ (load.read = "pending") ~> isLoaded
    /\ [][(load.read = "pending" /\ load'.read # "pending") => isLoaded']_vars
    /\ [][ReadRejects =>
            (isLoaded' /\ mode' = "system" /\ load'.promise = "fulfilled")]_vars

\* Ready after a read that threw
C4_Witness ==
    /\ load.read = "rejected"
    /\ load.promise = "fulfilled"
    /\ isLoaded
    /\ mode = "system"
    /\ view.children

\* C5: children are rendered only when isLoaded is true, that is only after
\* the initial read has settled.
C5_NoChildrenBeforeReady ==
    view.children => (isLoaded /\ load.read # "pending")

\* a fresh instance, mounted after an earlier one had saved a mode, renders
\* nothing while its read is outstanding
C5_Witness ==
    /\ instance > 1
    /\ lastSaved # NotSaved
    /\ load.read = "pending"
    /\ ~isLoaded
    /\ ~view.children

\* C6: within one instance isLoaded goes from false to true only in the step
\* that settles the initial read, that read settles once, and no other step
\* (setMode, toggleTheme, scheme change, write success or failure, render)
\* takes isLoaded back to false.
C6_ReadyOnce ==
    [][/\ (~isLoaded /\ isLoaded') =>
            (load.read = "pending" /\ load'.read # "pending")
       /\ instance' = instance =>
            /\ isLoaded => isLoaded'
            /\ load.read # "pending" => load'.read # "pending"]_vars

\* still Ready after a toggle, a failed write and with a write in flight
C6_Witness ==
    /\ isLoaded
    /\ op = "toggleTheme"
    /\ settled.write = "failed"
    /\ calls # <<>>
    /\ view.scheme # systemColorScheme

\* C7: the exposed isDark is (mode = dark) or (mode = system and the device
\* is dark) for the mode and scheme of that render, and the exposed theme is
\* darkTheme when isDark and lightTheme otherwise.
C7_DerivedAppearance ==
    view.children =>
        /\ view.isDark =
            (view.mode = "dark" \/ (view.mode = "system" /\ view.scheme = "dark"))
        /\ view.theme = IF view.isDark THEN darkTheme ELSE lightTheme
        /\ (view.mode = mode /\ view.scheme = systemColorScheme) =>
            view.isDark =
                (mode = "dark" \/ (mode = "system" /\ systemColorScheme = "dark"))

\* mode system on a dark device
C7_Witness ==
    /\ view.children
    /\ view.mode = "system"
    /\ view.scheme = "dark"
    /\ view.isDark
    /\ view.theme = darkTheme

\* C8: a fresh instance whose initial read resolves while no setItem is in
\* flight adopts the mode m of the setMode(m) call whose write succeeded last.
C8_RoundTrip ==
    [][(ReadResolves /\ calls = <<>> /\ lastSaved # NotSaved) =>
        mode' = lastSaved]_vars

\* a second instance came up with the mode the first one saved
C8_Witness ==
    /\ instance = 2
    /\ load.read = "resolved"
    /\ isLoaded
    /\ op = "none"
    /\ calls = <<>>
    /\ settled.write = "ok"
    /\ settled.mode = "dark"
    /\ lastSaved = "dark"
    /\ mode = "dark"

\* C9: a failed setItem changes neither the in-memory mode nor the store and
\* issues no further write: the call just leaves the writes in flight.
C9_NoRollbackNoRetry ==
    [][WriteFails =>
        /\ mode' = mode
        /\ store' = store
        /\ \E i \in 1..Len(calls) :
            /\ calls' = RemoveAt(calls, i)
            /\ settled'.mode = calls[i].mode]_vars

\* the write of setMode('dark') failed: mode dark, store not dark, nothing
\* in flight
C9_Witness ==
    /\ settled.write = "failed"
    /\ settled.mode = "dark"
    /\ mode = "dark"
    /\ store[KEY] # "dark"
    /\ calls = <<>>

\* C10: the promise of a setMode call is pending while its setItem is in
\* flight and fulfilled, never rejected, once the write succeeded or failed.
C10_NeverRejects ==
    /\ \A i \in 1..Len(calls) : calls[i].promise = "pending"
    /\ settled # None =>
        (settled.write \in {"ok", "failed"} /\ settled.promise = "fulfilled")

\* a setMode issued through toggleTheme returned normally after its write
\* failed
C10_Witness ==
    /\ op = "toggleTheme"
    /\ calls = <<>>
    /\ settled.write = "failed"
    /\ settled.promise = "fulfilled"

\* C11: a setMode call made while writes are in flight leaves them in flight
\* as they are and adds its own, the in-memory mode being that of this last
\* call; any of the writes in flight may be the next to complete.
C11_NotCoalescedNorQueued ==
    /\ [][(calls' # calls /\ Len(calls') >= Len(calls)) =>
            /\ Len(calls') = Len(calls) + 1
            /\ SubSeq(calls', 1, Len(calls)) = calls
            /\ mode' = calls'[Len(calls')].mode]_vars
    /\ [](\A i \in 1..Len(calls) : ENABLED WriteResolve(i))

\* two writes completed out of issue order, none failed: nothing is in
\* flight and the store holds another mode than the memory
C11_Witness ==
    /\ instance = 1
    /\ history = "reordered"
    /\ calls = <<>>
    /\ settled.write = "ok"
    /\ mode = "dark"
    /\ store[KEY] = "light"

\* C12: the store changes only when a write in flight completes, to the mode
\* of the call that issued it, and a call sets the in-memory mode to that
\* value in the step that issues the write, the store still untouched: no
\* mode reaches the store before it has been the in-memory mode.
C12_MemoryBeforeStore ==
    [][/\ (calls' # calls /\ Len(calls') >= Len(calls)) =>
            /\ mode' = calls'[Len(calls')].mode
            /\ store' = store
            /\ lastSaved' = lastSaved
       /\ (store' # store \/ lastSaved' # lastSaved) =>
            \E i \in 1..Len(calls) :
                /\ calls' = RemoveAt(calls, i)
                /\ store'[KEY] = calls[i].mode
                /\ lastSaved' = calls[i].mode]_vars

\* the memory is ahead of the store: light in memory with its write in
\* flight, dark persisted by the call before
C12_Witness ==
    /\ instance = 1
    /\ Len(calls) = 1
    /\ calls[1].mode = "light"
    /\ mode = "light"
    /\ lastSaved = "dark"
    /\ store[KEY] = "dark"

\* C13: a change of the device colour scheme leaves the in-memory mode, the
\* store, the writes in flight and the controller's other state as they are;
\* the appearance derived from the new scheme differs from the one derived
\* from the old scheme only when the mode is system.
C13_SchemeChangeFrame ==
    [][systemColorScheme' # systemColorScheme =>
        /\ mode' = mode
        /\ store' = store
        /\ calls' = calls
        /\ lastSaved' = lastSaved
        /\ isLoaded' = isLoaded
        /\ view' = view
        /\ RenderOutput(mode', systemColorScheme', isLoaded').isDark
             # RenderOutput(mode, systemColorScheme, isLoaded).isDark
           => mode = "system"
        /\ mode # "system" =>
             RenderOutput(mode', systemColorScheme', isLoaded').theme
               = RenderOutput(mode, systemColorScheme, isLoaded).theme]_vars

\* mode system, the device went dark after the last render: the render to
\* come is dark, mode and store are as they were
C13_Witness ==
    /\ view.children
    /\ view.mode = "system"
    /\ mode = "system"
    /\ view.scheme = "light"
    /\ systemColorScheme = "dark"
    /\ ~view.isDark
    /\ calls = <<>>
    /\ lastSaved = NotSaved

\* C14: every setMode or toggleTheme call adds exactly one setItem to the
\* writes in flight, of the new in-memory mode under '@vibern/theme-mode',
\* also when that mode is the one already held; the initial read of an
\* instance settles once, and neither mounting nor the read issues a write or
\* changes the store.
C14_OneWritePerCall ==
    [][/\ (op' # op /\ instance' = instance) =>
            (calls' # calls /\ Len(calls') >= Len(calls))
       /\ (calls' # calls /\ Len(calls') >= Len(calls)) =>
            calls' = Append(calls,
                            [mode |-> mode',
                             req |-> [key |-> "@vibern/theme-mode",
                                      value |-> mode'],
                             promise |-> "pending"])
       /\ load' # load => (calls' = calls /\ store' = store)
       /\ (instance' = instance /\ load.read # "pending") => load' = load]_vars

\* setMode('system') while system is both in memory and persisted: its
\* write is in flight all the same
C14_Witness ==
    /\ instance = 1
    /\ op = "setMode"
    /\ settled = [mode |-> "system", write |-> "ok", promise |-> "fulfilled"]
    /\ store[KEY] = "system"
    /\ mode = "system"
    /\ Len(calls) = 1
    /\ calls[1].req = [key |-> "@vibern/theme-mode", value |-> "system"]

\* C15: in every reachable state the in-memory mode, the mode of the last
\* render and the value of every setItem in flight are one of light, dark,
\* system, and so is the stored entry once a write of the controller has
\* succeeded.
C15_ModeInRange ==
    /\ mode \in {"light", "dark", "system"}
    /\ view.mode \in {"light", "dark", "system"}
    /\ \A i \in 1..Len(calls) :
        /\ calls[i].mode \in {"light", "dark", "system"}
        /\ calls[i].req.value \in {"light", "dark", "system"}
    /\ lastSaved # NotSaved =>
        /\ lastSaved \in {"light", "dark", "system"}
        /\ store[KEY] \in {"light", "dark", "system"}

\* a second instance over a store that still holds an unrecognized string
\* (the first instance's write failed), with a write of its own in flight
C15_Witness ==
    /\ instance = 2
    /\ isLoaded
    /\ store[KEY] = "Dark"
    /\ history = "failed"
    /\ op = "toggleTheme"
    /\ Len(calls) = 1
    /\ mode = calls[1].mode

\* the theme that is not t
OtherTheme(t) == IF t = lightTheme THEN darkTheme ELSE lightTheme

\* C16: the colour table of lightTheme and that of darkTheme have the same
\* set of keys, so whichever theme the controller exposes offers every
\* colour name the other one offers.
C16_ColorKeyParity ==
    /\ DOMAIN Object(Object(lightTheme).colors)
         = DOMAIN Object(Object(darkTheme).colors)
    /\ view.children =>
         DOMAIN Object(Object(view.theme).colors)
           = DOMAIN Object(Object(OtherTheme(view.theme)).colors)

\* the dark theme is exposed and has the last colour name of the light table
C16_Witness ==
    /\ view.children
    /\ view.theme = darkTheme
    /\ Object(view.theme).colors = "darkColors"
    /\ Cardinality(DOMAIN Object(Object(view.theme).colors)) = 42
    /\ "inputPlaceholder" \in DOMAIN Object(Object(view.theme).colors)

\* C17 as stated: spacing, radius, shadows and typography of the exposed
\* theme are each the very object the other theme holds.
C17_AllMembersShared ==
    view.children =>
        \A f \in {"spacing", "radius", "shadows", "typography"} :
            Object(view.theme)[f] = Object(OtherTheme(view.theme))[f]

\* C17, amended: spacing, semanticSpacing, radius, componentRadius and
\* shadows of the exposed theme are each the very object the other theme
\* holds; typography is an object of its own in each theme, and its members
\* styles, fonts, sizes and weights are the very objects the other theme's
\* typography holds.
C17_SharedTokenTables ==
    view.children =>
        LET mine == Object(view.theme)
            other == Object(OtherTheme(view.theme))
        IN  /\ \A f \in {"spacing", "semanticSpacing", "radius",
                         "componentRadius", "shadows"} :
                mine[f] = other[f]
            /\ mine.typography # other.typography
            /\ \A g \in {"styles", "fonts", "sizes", "weights"} :
                Object(mine.typography)[g] = Object(other.typography)[g]
            /\ mine.colors # other.colors

\* the dark theme is exposed: it shares spacing with the light theme and has
\* a typography object of its own
C17_Witness ==
    /\ view.children
    /\ view.theme = darkTheme
    /\ Object(view.theme).spacing = Object(lightTheme).spacing
    /\ Object(view.theme).typography = "darkTheme.typography"
    /\ Object(lightTheme).typography = "lightTheme.typography"

\* a storage call of the hook returns in this step; hLast' describes it
HookReturns(o) == Len(hOps') < Len(hOps) /\ hLast'.op = o

\* the read that returns in this step failed: getItem rejected, or the entry
\* under the key is not JSON
ReadFails ==
    /\ HookReturns("get")
    /\ \/ hLast'.io = "failed"
       \/ hLast'.io = "ok" /\ hEntry # NoValue /\ JsonParse(hEntry) = SyntaxError

\* C18: when the storage read of useStorageState fails during the initial
\* load or a refresh, the hook finishes with isLoading = false and a non-null
\* error.
C18_ReadFailureSetsError ==
    [][(hKind = "useStorageState" /\ hMounted /\ ReadFails)
        => (hLoading' = FALSE /\ hError' # NoValue)]_vars

\* C18: a read of useStorageState failed and the hook is at rest with
\* isLoading = false, no error and the value null
C18_Witness ==
    /\ hKind = "useStorageState"
    /\ hMounted
    /\ hOps = <<>>
    /\ hLast.op = "get"
    /\ hLast.io = "failed"
    /\ hLoading = FALSE
    /\ hError = NoValue
    /\ hValue = NoValue

\* the initial load of a mounted useAsyncStorage returns in this step
AsyncLoadSettles == hKind = "useAsyncStorage" /\ hMounted /\ HookReturns("get")

\* removeValue of a mounted useAsyncStorage succeeds in this step
AsyncRemoveSucceeds ==
    hKind = "useAsyncStorage" /\ hMounted /\ HookReturns("remove") /\ hLast'.io = "ok"

\* C19 as stated: after the initial load of useAsyncStorage settles, isLoading
\* is false and value is the stored value whenever the key exists, and
\* defaultValue when the key does not exist or the read fails; a successful
\* removeValue resets value to defaultValue.
C19_StoredValueWheneverKeyExists ==
    [][/\ AsyncLoadSettles =>
            /\ hLoading' = FALSE
            /\ hValue' = IF hEntry = NoValue \/ ReadFails
                         THEN hDefault
                         ELSE JsonParse(hEntry)
       /\ AsyncRemoveSucceeds => hValue' = hDefault]_vars

\* C19: after the initial load of useAsyncStorage settles, isLoading is false
\* and value is the stored value when the key holds a value other than null,
\* and defaultValue when the key does not exist, holds JSON null, or the read
\* fails; a successful removeValue resets value to defaultValue.
C19_StoredNonNullOrDefault ==
    [][/\ AsyncLoadSettles =>
            /\ hLoading' = FALSE
            /\ hValue' = IF hEntry = NoValue \/ ReadFails \/ JsonParse(hEntry) = NoValue
                         THEN hDefault
                         ELSE JsonParse(hEntry)
       /\ AsyncRemoveSucceeds => hValue' = hDefault]_vars

\* C19: the key held JSON null, the load of useAsyncStorage(key, "off") read
\* it and the hook shows the default
C19_Witness ==
    /\ hKind = "useAsyncStorage"
    /\ hMounted
    /\ hOps = <<>>
    /\ hLast.op = "get"
    /\ hLast.io = "ok"
    /\ hEntry = "null"
    /\ hDefault = "off"
    /\ hValue = "off"
    /\ hLoading = FALSE

\* the component calls setValue in this step
SetValueCalled ==
    /\ Len(hOps') > Len(hOps)
    /\ hOps'[Len(hOps')].op = "set"

\* C20: in useAsyncStorage and useStorageState, setValue(v) leaves the
\* in-memory value alone when it is called and makes it v when the storage
\* write has succeeded; when the write fails the value is unchanged, the
\* promise of setValue rejects and useStorageState records the error.
C20_ValueFollowsWrite ==
    [][/\ SetValueCalled => hValue' = hValue
       /\ (hMounted /\ HookReturns("set") /\ hLast'.io = "ok") =>
            /\ hEntry' = JsonStringify(hLast'.arg)
            /\ hValue' = hLast'.arg
            /\ hLast'.promise = "fulfilled"
       /\ (hMounted /\ HookReturns("set") /\ hLast'.io = "failed") =>
            /\ hValue' = hValue
            /\ hEntry' = hEntry
            /\ hLast'.promise = "rejected"
            /\ hKind = "useStorageState" => hError' # NoValue]_vars

\* C20: a setValue(v) of useStorageState failed: the call was rejected, the
\* error is recorded and the value is not v
C20_Witness ==
    /\ hKind = "useStorageState"
    /\ hMounted
    /\ hOps = <<>>
    /\ hLast.op = "set"
    /\ hLast.io = "failed"
    /\ hLast.promise = "rejected"
    /\ hError # NoValue
    /\ hValue # hLast.arg

\* fn / callback is invoked in this step
DebounceInvokes == dInvoked'.n > dInvoked.n

\* the invocation of this step comes Delay or more after the most recent call,
\* carries its arguments and is the only one since that call
InvokesLastCall ==
    /\ now - dLastCall.at >= Delay
    /\ dInvoked'.args = dLastCall.args
    /\ dInvoked'.n = 1

\* C21 as stated: fn is invoked only when delay has elapsed since the most
\* recent call, once, with the arguments of that call, and
\* useDebouncedCallback never invokes the callback after the unmount.
C21_NeverAfterUnmount ==
    [][DebounceInvokes =>
        /\ InvokesLastCall
        /\ dKind = "useDebouncedCallback" => dMounted]_vars

\* the last call was made before the unmount and the unmount cancelled it
CancelledByUnmount ==
    /\ dKind = "useDebouncedCallback"
    /\ ~dMounted
    /\ dLastCall.mounted
    /\ dInvoked.n = 0

\* C21: fn is invoked only when delay has elapsed since the most recent call,
\* with the arguments of that call; once the calls stop there is exactly one
\* invocation for the last call, unless the unmount of useDebouncedCallback
\* cancelled it; after the unmount the callback is invoked only for a call
\* of the debounced function made after the unmount.
C21_DebouncedInvocation ==
    /\ [][DebounceInvokes =>
            /\ InvokesLastCall
            /\ (dKind = "useDebouncedCallback" /\ ~dMounted) => ~dLastCall.mounted]_vars
    /\ []((dLastCall.n = 1 /\ ~dTimer.set) =>
            \/ dInvoked.n = 1 /\ dInvoked.args = dLastCall.args
            \/ CancelledByUnmount)
    /\ <>[](~dTimer.set)

\* C21: the debounced function of useDebouncedCallback was called after the
\* unmount and the callback has run for that call
C21_Witness ==
    /\ dKind = "useDebouncedCallback"
    /\ ~dMounted
    /\ ~dLastCall.mounted
    /\ dInvoked.n = 1
    /\ ~dInvoked.mounted
    /\ dInvoked.args = dLastCall.args
    /\ dInvoked.at - dLastCall.at >= Delay

\* the throttled function is called in this step
ThrottleCalled == tCall'.n # tCall.n

\* fn is invoked by the throttled function in this step
ThrottleInvokes == tInvoked'.n # tInvoked.n

\* C22: the first call of the function throttle(fn, limit) returns invokes fn
\* at once; fn is invoked only in the step of a call, with the arguments of
\* that call; two invocations are limit or more apart; a call less than limit
\* after the last invocation invokes nothing, then or later.
C22_ThrottleLimit ==
    [][/\ (ThrottleCalled /\ tCall.n = 0) => ThrottleInvokes
       /\ ThrottleInvokes =>
            /\ ThrottleCalled
            /\ tInvoked'.args = tCall'.args
            /\ tInvoked'.at = DateNow
            /\ tInvoked.n = 0 \/ DateNow - tInvoked.at >= Limit
       /\ (ThrottleCalled /\ tInvoked.n # 0 /\ DateNow - tInvoked.at < Limit)
            => ~ThrottleInvokes]_vars

\* C22: a call came less than Limit after an invocation, was dropped, and
\* Limit has passed since without an invocation for it
C22_Witness ==
    /\ tInvoked.n # 0
    /\ tCall.at > tInvoked.at
    /\ tCall.at - tInvoked.at < Limit
    /\ tCall.args # tInvoked.args
    /\ DateNow - tCall.at >= Limit

\* show, hide or an auto-hide timer (op) acts in this step
ToastStep(o) == toastEvent'.n # toastEvent.n /\ toastEvent'.op = o

\* the toasts on a list
ToastsOf(list) == {list[i] : i \in 1..Len(list)}

\* the list without the toasts that carry the id of this step
WithoutStepId ==
    LET Other(t) == t.id # toastEvent'.id IN SelectSeq(toasts, Other)

\* C23 as stated: show appends a toast whose duration is the one given, 3000 ms
\* when none is given; a toast leaves the list only by hide(id) with its id or
\* by the timer with its id once its duration has passed; hide(id) and the
\* timer leave the other toasts and their order unchanged.
C23_RemovedByOwnTimerOrHide ==
    [][/\ ToastStep("show") =>
            LET t == toasts'[Len(toasts')] IN
            /\ toasts' = Append(toasts, t)
            /\ t.duration = IF t.option.given THEN t.option.duration
                                              ELSE DefaultDuration
       /\ \A t \in ToastsOf(toasts) \ ToastsOf(toasts') :
            /\ t.id = toastEvent'.id
            /\ \/ ToastStep("hide")
               \/ ToastStep("timer") /\ now >= t.at + t.duration
       /\ (ToastStep("hide") \/ ToastStep("timer")) => toasts' = WithoutStepId]_vars

\* C23: show appends a toast whose duration is the one given, 3000 ms when
\* none or 0 is given, and sets a timer for it; every toast on the list has
\* its timer set, and every toast is eventually removed; hide(id) and a timer
\* that is due remove the toasts that carry that id, whatever their own
\* duration, and leave the other toasts and their order unchanged.
C23_ToastsAreRemoved ==
    /\ [][/\ ToastStep("show") =>
                LET t == toasts'[Len(toasts')] IN
                /\ toasts' = Append(toasts, t)
                /\ t.id = toastEvent'.id
                /\ t.at = now
                /\ t.duration = IF t.option.given /\ t.option.duration # 0
                                THEN t.option.duration
                                ELSE DefaultDuration
                /\ [id |-> t.id, due |-> now + t.duration] \in toastTimers'
          /\ ToastStep("timer") =>
                \E timer \in toastTimers \ toastTimers' :
                    timer.id = toastEvent'.id /\ now >= timer.due
          /\ (ToastStep("hide") \/ ToastStep("timer")) => toasts' = WithoutStepId
          /\ toasts' # toasts =>
                ToastStep("show") \/ ToastStep("hide") \/ ToastStep("timer")]_vars
    /\ [](\A t \in ToastsOf(toasts) :
            [id |-> t.id, due |-> t.at + t.duration] \in toastTimers)
    /\ <>[](toasts = <<>>)

\* C23: a toast shown with duration 0 is on the list with the default
\* duration, time has passed since show, and its timer is yet to run
C23_Witness ==
    \E t \in ToastsOf(toasts) :
        /\ t.option.given
        /\ t.option.duration = 0
        /\ t.duration = DefaultDuration
        /\ now > t.at
        /\ [id |-> t.id, due |-> t.at + DefaultDuration] \in toastTimers

\* C24 as stated: while a caught child error stands, the render shows the
\* fallback, the custom one if a fallback prop is given and else the default
\* screen, and not the children.
C24_CustomFallbackIfGiven ==
    hasError =>
        shown = IF fallback # Undefined THEN fallback ELSE "<DefaultScreen />"

\* C24: once a child error has been caught, every render shows the fallback
\* (the fallback prop if it is given and not null, else the default screen)
\* and not the children, until handleRetry is invoked, which clears hasError
\* and error and renders the children again; onError is called once per
\* caught error.
C24_FallbackUntilRetry ==
    /\ [](hasError =>
            /\ error \in ChildErrors
            /\ shown = IF fallback \notin {Undefined, NoValue}
                       THEN fallback
                       ELSE "<DefaultScreen />")
    /\ [](~hasError => shown = "children")
    /\ [](reported = IF onError THEN caught ELSE 0)
    /\ [][/\ (hasError /\ boundaryOp' = "retry") =>
                (~hasError' /\ error' = NoValue /\ shown' = "children")
          /\ (hasError /\ boundaryOp' # "retry") => (hasError' /\ error' = error)
          /\ caught' # caught =>
                /\ caught' = caught + 1
                /\ hasError'
                /\ boundaryOp' = "throw"]_vars

\* C24: a child error was caught by an ErrorBoundary whose fallback prop is
\* null, onError was called for it, and the default screen is shown
C24_Witness ==
    /\ boundaryUsed
    /\ hasError
    /\ boundaryOp = "throw"
    /\ fallback = NoValue
    /\ shown = "<DefaultScreen />"
    /\ onError
    /\ caught = 2
    /\ reported = 2

\* the initial read of this instance settles in this step
ReadSettles == load.read = "pending" /\ load'.read # "pending"

\* C25: no setMode or toggle happens before the initial read of the instance
\* has been applied, so the read is applied to the default mode only, and once
\* a child has set a mode only a further setMode or toggle changes it.
C25_ReadPrecedesSetMode ==
    /\ [](op # "none" => (load.read # "pending" /\ isLoaded))
    /\ [][/\ ReadSettles => (op = "none" /\ mode = defaultMode)
          /\ (op # "none" /\ instance' = instance /\ mode' # mode) =>
                (calls' # calls /\ Len(calls') >= Len(calls)
                    /\ op' \in {"setMode", "toggleTheme"})]_vars

\* C25: the initial read adopted "dark", and then a child set the mode to
\* "light" (its write still in flight)
C25_Witness ==
    /\ instance = 1
    /\ load.read = "resolved"
    /\ store[THEME_STORAGE_KEY] = "dark"
    /\ settled = None
    /\ op = "setMode"
    /\ mode = "light"
    /\ Len(calls) = 1

\* C26: if no write has failed and the writes completed in the order they
\* were issued, then whenever a child of the mounted provider has called
\* setMode or toggle and no write is pending, the persisted value equals the
\* in-memory mode.
C26_PersistedEqualsMode ==
    (history = "inorder" /\ op # "none" /\ calls = <<>>)
        => store[THEME_STORAGE_KEY] = mode

\* C26: after a relaunch a child has set the mode, every write has completed
\* in order, and the store holds the mode
C26_Witness ==
    /\ instance = 2
    /\ history = "inorder"
    /\ op = "toggleTheme"
    /\ calls = <<>>
    /\ settled.write = "ok"
    /\ mode = "dark"
    /\ store[THEME_STORAGE_KEY] = "dark"

\* a child calls toggleTheme in this step
ToggleCalled ==
    /\ op' = "toggleTheme"
    /\ calls' # calls
    /\ Len(calls') >= Len(calls)

\* the last child call was a toggle made from the snapshot still rendered
ToggledFromThisSnapshot ==
    /\ op = "toggleTheme"
    /\ view.mode # mode
    /\ mode = IF view.mode = "dark" \/ (view.mode = "system" /\ view.scheme = "dark")
              THEN "light" ELSE "dark"

\* C27: toggle sets the mode computed from the mode and device scheme of the
\* last render, whatever the in-memory mode is; a second toggle from the same
\* rendered snapshot sets the same mode again and issues a second write of
\* that value.
C27_ToggleFromSnapshot ==
    [][ToggleCalled =>
        /\ mode' = IF view.mode = "dark" \/ (view.mode = "system" /\ view.scheme = "dark")
                   THEN "light" ELSE "dark"
        /\ calls'[Len(calls')].req.value = mode'
        /\ ToggledFromThisSnapshot =>
                /\ mode' = mode
                /\ Len(calls') = Len(calls) + 1
                /\ calls'[Len(calls')].req.value = mode]_vars

\* C27: two calls write the same value, the mode, and the rendered snapshot
\* still shows the mode from before the toggle
C27_Witness ==
    /\ view.children
    /\ op = "toggleTheme"
    /\ view.mode = "light"
    /\ mode = "dark"
    /\ Len(calls) = 2
    /\ calls[1].req.value = "dark"
    /\ calls[2].req.value = "dark"
    /\ settled = None
    /\ store[THEME_STORAGE_KEY] = "light"
    /\ instance = 1

\* the component outside any ThemeProvider acts in this step
OutsideActs == outside' # outside

====
